---- MODULE Spec2Model ----
(***************************************************************************)
(* Model of tracker.py (zen_tracker): main() fetches the Zen status page,  *)
(* parse_page() reads the three outage tables, keeps the rows near today,  *)
(* and report() prints them.                                               *)
(*                                                                         *)
(* A text (str) is a sequence of one-character strings.  A date is a       *)
(* record [year, month, day]; a datetime adds hour and minute.             *)
(***************************************************************************)
EXTENDS Integers, Sequences, FiniteSets, TLC

VARIABLES
    site,      \* what the status page serves (the environment of get_page)
    today,     \* what date.today() returns
    pc,        \* position of main(): "start", "fetched", "parsed", "done", "failed"
    page,      \* local `page` of main()
    issues,    \* local `issues` of main(): <<current, planned, past>>
    out,       \* lines printed to stdout by the current run
    run,       \* number of the current run of main()
    prevOut,   \* stdout of the previous run (observation only)
    dkind,     \* parse_date harness: how the argument string was written
    dfields,   \* parse_date harness: the fields the string was written from
    dstr,      \* parse_date harness: the argument datestr
    dret       \* parse_date harness: the outcome of parse_date(datestr)

vars == <<site, today, pc, page, issues, out, run, prevOut, dkind, dfields, dstr, dret>>

mainVars == <<site, today, pc, page, issues, out, run, prevOut>>
dateVars == <<dkind, dfields, dstr, dret>>

-----------------------------------------------------------------------------
(* Bounds *)

\* rows of a page with several rows
MaxRows == 2
\* single-row pages carry start and end dates up to MaxOffset days from a today
MaxOffset == 3
\* runs of main() in one behaviour
MaxRuns == 2

-----------------------------------------------------------------------------
(* Characters and numbers *)

Digit == {"0", "1", "2", "3", "4", "5", "6", "7", "8", "9"}

DigitChar == <<"0", "1", "2", "3", "4", "5", "6", "7", "8", "9">>

DigitVal(c) ==
    CASE c = "0" -> 0 [] c = "1" -> 1 [] c = "2" -> 2 [] c = "3" -> 3 [] c = "4" -> 4
      [] c = "5" -> 5 [] c = "6" -> 6 [] c = "7" -> 7 [] c = "8" -> 8 [] c = "9" -> 9

\* the character at position p of s, "" past either end
At(s, p) == IF p >= 1 /\ p <= Len(s) THEN s[p] ELSE ""

\* int() of s[p .. p+l-1]; int() skips surrounding blanks
RECURSIVE IntOf(_, _, _)
IntOf(s, p, l) ==
    IF l = 0 THEN 0
    ELSE IF At(s, p + l - 1) \in Digit
         THEN 10 * IntOf(s, p, l - 1) + DigitVal(At(s, p + l - 1))
         ELSE IntOf(s, p, l - 1)

-----------------------------------------------------------------------------
(* datetime: the calendar *)

time_gap == 2

IsLeap(y) == y % 4 = 0 /\ (y % 100 # 0 \/ y % 400 = 0)

DaysInMonth(y, m) ==
    IF m = 2 THEN (IF IsLeap(y) THEN 29 ELSE 28)
    ELSE IF m \in {4, 6, 9, 11} THEN 30 ELSE 31

DaysBeforeYear(y) ==
    (y - 1) * 365 + (y - 1) \div 4 - (y - 1) \div 100 + (y - 1) \div 400

RECURSIVE DaysBeforeMonth(_, _)
DaysBeforeMonth(y, m) ==
    IF m <= 1 THEN 0 ELSE DaysBeforeMonth(y, m - 1) + DaysInMonth(y, m - 1)

\* date.toordinal()
ToOrdinal(d) == DaysBeforeYear(d.year) + DaysBeforeMonth(d.year, d.month) + d.day

\* date - date, in days
DateDiff(a, b) == ToOrdinal(a) - ToOrdinal(b)

\* datetime.date()
DateOf(dt) == [year |-> dt.year, month |-> dt.month, day |-> dt.day]

\* the range checks of the datetime constructor
ValidDatetime(f) ==
    /\ f.year >= 1 /\ f.year <= 9999
    /\ f.month >= 1 /\ f.month <= 12
    /\ f.day >= 1 /\ f.day <= DaysInMonth(f.year, f.month)
    /\ f.hour >= 0 /\ f.hour <= 23
    /\ f.minute >= 0 /\ f.minute <= 59

NoDatetime == [year |-> 0, month |-> 0, day |-> 0, hour |-> 0, minute |-> 0]

-----------------------------------------------------------------------------
(* datetime.strptime: the format is compiled to a regular expression, one  *)
(* group per directive, matched from the start of the string.  Lengths     *)
(* below are the length of the alternative the regex engine takes.         *)

\* %d : 3[0-1]|[1-2]\d|0[1-9]|[1-9]| [1-9]
DayLen(s, p) ==
    LET a == At(s, p)
        b == At(s, p + 1)
    IN  IF a = "3" /\ b \in {"0", "1"} THEN 2
        ELSE IF a \in {"1", "2"} /\ b \in Digit THEN 2
        ELSE IF a = "0" /\ b \in Digit \ {"0"} THEN 2
        ELSE IF a \in Digit \ {"0"} THEN 1
        ELSE IF a = " " /\ b \in Digit \ {"0"} THEN 2
        ELSE 0

\* %m : 1[0-2]|0[1-9]|[1-9]
MonthLen(s, p) ==
    LET a == At(s, p)
        b == At(s, p + 1)
    IN  IF a = "1" /\ b \in {"0", "1", "2"} THEN 2
        ELSE IF a = "0" /\ b \in Digit \ {"0"} THEN 2
        ELSE IF a \in Digit \ {"0"} THEN 1
        ELSE 0

\* %Y : \d\d\d\d
YearLen(s, p) ==
    IF \A k \in 0..3 : At(s, p + k) \in Digit THEN 4 ELSE 0

\* %H : 2[0-3]|[0-1]\d|\d
HourLen(s, p) ==
    LET a == At(s, p)
        b == At(s, p + 1)
    IN  IF a = "2" /\ b \in {"0", "1", "2", "3"} THEN 2
        ELSE IF a \in {"0", "1"} /\ b \in Digit THEN 2
        ELSE IF a \in Digit THEN 1
        ELSE 0

\* %M : [0-5]\d|\d
MinuteLen(s, p) ==
    LET a == At(s, p)
        b == At(s, p + 1)
    IN  IF a \in {"0", "1", "2", "3", "4", "5"} /\ b \in Digit THEN 2
        ELSE IF a \in Digit THEN 1
        ELSE 0

\* a blank of the format : \s+
RECURSIVE SpaceLen(_, _)
SpaceLen(s, p) == IF At(s, p) = " " THEN 1 + SpaceLen(s, p + 1) ELSE 0

Directive == {"d", "m", "Y", "H", "M"}

GroupLen(s, p, e) ==
    CASE e = "d" -> DayLen(s, p)
      [] e = "m" -> MonthLen(s, p)
      [] e = "Y" -> YearLen(s, p)
      [] e = "H" -> HourLen(s, p)
      [] e = "M" -> MinuteLen(s, p)
      [] e = " " -> SpaceLen(s, p)
      [] OTHER   -> IF At(s, p) = e THEN 1 ELSE 0

\* format_regex.match(data_string): the groups found and found.end().  A
\* group is always followed by a literal no digit matches (or by the end of
\* the format), so the first alternative that matches is the one kept.
RECURSIVE ReMatch(_, _, _, _, _)
RECURSIVE ReGroup(_, _, _, _, _, _)
ReMatch(s, p, fmt, i, found) ==
    IF i > Len(fmt) THEN [ok |-> TRUE, end |-> p - 1, found |-> found]
    ELSE ReGroup(s, p, fmt, i, found, GroupLen(s, p, fmt[i]))

\* element i of the format has matched l characters at p (none: l = 0)
ReGroup(s, p, fmt, i, found, l) ==
    IF l = 0 THEN [ok |-> FALSE, end |-> 0, found |-> found]
    ELSE ReMatch(s, p + l, fmt, i + 1,
                 IF fmt[i] \in Directive
                 THEN [found EXCEPT ![fmt[i]] = IntOf(s, p, l)]
                 ELSE found)

NoneFound == [e \in Directive |-> 0]

\* datetime(year, month, day, hour, minute): the datetime, or ValueError
datetime(f) ==
    IF ValidDatetime(f) THEN [exc |-> "none", val |-> f]
    ELSE [exc |-> "ValueError", val |-> NoDatetime]

\* what strptime makes of the match m of data_string s
Converted(s, m) ==
    IF ~m.ok THEN [exc |-> "ValueError", val |-> NoDatetime]
    ELSE IF m.end # Len(s) THEN [exc |-> "ValueError", val |-> NoDatetime]
    ELSE datetime([year |-> m.found["Y"], month |-> m.found["m"], day |-> m.found["d"],
                   hour |-> m.found["H"], minute |-> m.found["M"]])

\* datetime.strptime(data_string, format): a datetime, or ValueError
strptime(s, fmt) == Converted(s, ReMatch(s, 1, fmt, 1, NoneFound))

\* "%d/%m/%Y %H:%M"
ZenFormat == <<"d", "/", "m", "/", "Y", " ", "H", ":", "M">>

\* a month-first format
parse_date_month_first(datestr) ==
    strptime(datestr, <<"m", "/", "d", "/", "Y", " ", "H", ":", "M">>)

parse_date(datestr) == strptime(datestr, ZenFormat)

-----------------------------------------------------------------------------
(* Writing date-times *)

Pad2(n) == <<DigitChar[((n \div 10) % 10) + 1], DigitChar[(n % 10) + 1]>>

Pad4(n) == Pad2(n \div 100) \o Pad2(n % 100)

\* DD/MM/YYYY HH:MM, zero-padded, as the status page writes its cells
date_to_fixed_string(f) ==
    Pad2(f.day) \o <<"/">> \o Pad2(f.month) \o <<"/">> \o Pad4(f.year)
        \o <<" ">> \o Pad2(f.hour) \o <<":">> \o Pad2(f.minute)

\* datetime.isoformat() of a datetime with no seconds and no microseconds
isoformat(dt) ==
    Pad4(dt.year) \o <<"-">> \o Pad2(dt.month) \o <<"-">> \o Pad2(dt.day)
        \o <<"T">> \o Pad2(dt.hour) \o <<":">> \o Pad2(dt.minute) \o <<":", "0", "0">>

-----------------------------------------------------------------------------
(* parse_page *)

\* the three tables, by the suffix of their element id
Grids == {"pastOutagesGridView", "plannedOutagesGridView", "currentOutagesGridView"}

\* tree.xpath('//table[@id="<gridname>"]//tbody//tr'): no table, no rows
xpath_any_table(tree, gridname) ==
    (IF tree["currentOutagesGridView"].present
     THEN tree["currentOutagesGridView"].rows ELSE <<>>)
    \o (IF tree["plannedOutagesGridView"].present
        THEN tree["plannedOutagesGridView"].rows ELSE <<>>)
    \o (IF tree["pastOutagesGridView"].present
        THEN tree["pastOutagesGridView"].rows ELSE <<>>)

xpath(tree, gridname) ==
    IF tree[gridname].present THEN tree[gridname].rows ELSE <<>>

NoIssue == [issue_type |-> <<>>, reference |-> <<>>, start |-> NoDatetime,
            end |-> NoDatetime, codes |-> <<>>]

\* row[k].text, for the cells there are
Cell(row, k) == IF k <= Len(row) THEN row[k] ELSE <<>>

\* the five assignments of the loop body, in order, s and e being what
\* parse_date makes of cells 2 and 3: row[k] of a row with no cell k raises
\* IndexError, parse_date raises ValueError
Assigned(row, s, e) ==
    IF Len(row) < 3 THEN [exc |-> "IndexError", issue |-> NoIssue]
    ELSE IF s.exc # "none" THEN [exc |-> s.exc, issue |-> NoIssue]
    ELSE IF Len(row) < 4 THEN [exc |-> "IndexError", issue |-> NoIssue]
    ELSE IF e.exc # "none" THEN [exc |-> e.exc, issue |-> NoIssue]
    ELSE IF Len(row) < 5 THEN [exc |-> "IndexError", issue |-> NoIssue]
    ELSE [exc |-> "none",
          issue |-> [issue_type |-> row[1], reference |-> row[2], start |-> s.val,
                     end |-> e.val, codes |-> row[5]]]

ReadRow(row) == Assigned(row, parse_date(Cell(row, 3)), parse_date(Cell(row, 4)))

\* minutes from the start of day 1 to dt
MinutesOf(dt) == (ToOrdinal(DateOf(dt)) * 24 + dt.hour) * 60 + dt.minute

\* the test with <= for the first <
Recent_inclusive(issue, t) ==
    /\ DateDiff(DateOf(issue.start), t) <= time_gap
    /\ DateDiff(t, DateOf(issue.end)) < time_gap

\* the test with the operands of both subtractions exchanged
Recent_swapped(issue, t) ==
    /\ DateDiff(t, DateOf(issue.start)) < time_gap
    /\ DateDiff(DateOf(issue.end), t) < time_gap

\* the test on date-times, today taken at midnight
Recent_datetime(issue, t) ==
    /\ MinutesOf(issue.start) - ToOrdinal(t) * 24 * 60 < time_gap * 24 * 60
    /\ ToOrdinal(t) * 24 * 60 - MinutesOf(issue.end) < time_gap * 24 * 60

\* issue['start'].date() - today < time_gap and today - issue['end'].date() < time_gap
Recent(issue, t) ==
    /\ DateDiff(DateOf(issue.start), t) < time_gap
    /\ DateDiff(t, DateOf(issue.end)) < time_gap

\* the loop over the rows of one table, from row i on, appending to acc
RECURSIVE ForRows(_, _, _, _)
RECURSIVE ForRow(_, _, _, _, _)
ForRows(rows, i, t, acc) ==
    IF i > Len(rows) THEN [exc |-> "none", list |-> acc]
    ELSE ForRow(rows, i, t, acc, ReadRow(rows[i]))

\* the rest of the loop after row i was read as r
ForRow(rows, i, t, acc, r) ==
    IF r.exc # "none" THEN [exc |-> r.exc, list |-> <<>>]
    ELSE ForRows(rows, i + 1, t, IF Recent(r.issue, t) THEN Append(acc, r.issue) ELSE acc)

\* row r joined to the result of the rows after it: a raising row skipped
\* or not, a retained issue put behind the rest or in front
Joined(r, rest, t, skip, front) ==
    IF r.exc # "none" THEN (IF skip THEN rest ELSE [exc |-> r.exc, list |-> <<>>])
    ELSE IF rest.exc # "none" THEN rest
    ELSE IF ~Recent(r.issue, t) THEN rest
    ELSE IF front THEN [exc |-> "none", list |-> Append(rest.list, r.issue)]
    ELSE [exc |-> "none", list |-> <<r.issue>> \o rest.list]

\* the loop with a row that raises skipped
RECURSIVE ParseTable_skip(_, _)
ParseTable_skip(rows, t) ==
    IF rows = <<>> THEN [exc |-> "none", list |-> <<>>]
    ELSE Joined(ReadRow(Head(rows)), ParseTable_skip(Tail(rows), t), t, TRUE, FALSE)

\* the loop with each retained issue put at the front of the list
RECURSIVE ParseTable_front(_, _)
ParseTable_front(rows, t) ==
    IF rows = <<>> THEN [exc |-> "none", list |-> <<>>]
    ELSE Joined(ReadRow(Head(rows)), ParseTable_front(Tail(rows), t), t, FALSE, TRUE)

\* one of the three for loops
ParseTable(rows, t) == ForRows(rows, 1, t, <<>>)

\* no value: parse_page raised, or has not returned yet
NoIssues == <<>>

\* the three lists as returned, or the first exception raised
Outcome(past, planned, current, lists) ==
    IF past.exc # "none" THEN [exc |-> past.exc, issues |-> NoIssues]
    ELSE IF planned.exc # "none" THEN [exc |-> planned.exc, issues |-> NoIssues]
    ELSE IF current.exc # "none" THEN [exc |-> current.exc, issues |-> NoIssues]
    ELSE [exc |-> "none", issues |-> lists]

\* the three loops with the past rows appended to issues[0]
Returned_wrong_list(past, planned, current) ==
    Outcome(past, planned, current, <<past.list \o current.list, planned.list, <<>> >>)

\* return issues: [current, planned, past]
ReturnedIssues(past, planned, current) ==
    Outcome(past, planned, current, <<current.list, planned.list, past.list>>)

\* parse_page(page) on a day t: the loops over the past, the planned and the
\* current table, in this order
parse_page(tree, t) ==
    ReturnedIssues(ParseTable(xpath(tree, "pastOutagesGridView"), t),
                   ParseTable(xpath(tree, "plannedOutagesGridView"), t),
                   ParseTable(xpath(tree, "currentOutagesGridView"), t))

-----
(* report *)

CurrentHead == "Outage current at {start}"
PlannedHead == "Outage planned at {start}"
PastHead == "Outage complete, ended at {end}"
DetailHead == "Outage {reference} planned to start at {start} and end at {end}. Hopefully check reference {reference} at https://status.zen.co.uk/broadband/maintenance-outage-details.aspx?reference={outage_id}"

\* the line print() writes for an f-string: its text and the values put in
Line(head, args) == [head |-> head, args |-> args]

\* `message`, with outage_id = issue['reference'][2:]
Message(issue) ==
    Line(DetailHead,
         <<issue.reference, isoformat(issue.start), isoformat(issue.end),
           issue.reference, SubSeq(issue.reference, 3, Len(issue.reference))>>)

RECURSIVE ReportCurrent_detail(_)
ReportCurrent_detail(list) ==
    IF list = <<>> THEN <<>>
    ELSE <<Line(CurrentHead, <<isoformat(Head(list).start)>>), Message(Head(list))>>
         \o ReportCurrent_detail(Tail(list))

\* for issue in issues[0]: one print; message is built and dropped
RECURSIVE ReportCurrent(_)
ReportCurrent(list) ==
    IF list = <<>> THEN <<>>
    ELSE <<Line(CurrentHead, <<isoformat(Head(list).start)>>)>>
         \o ReportCurrent(Tail(list))

\* for issue in issues[1]: two prints
RECURSIVE ReportPlanned(_)
ReportPlanned(list) ==
    IF list = <<>> THEN <<>>
    ELSE <<Line(PlannedHead, <<isoformat(Head(list).start)>>), Message(Head(list))>>
         \o ReportPlanned(Tail(list))

\* for issue in issues[2]: two prints
RECURSIVE ReportPast(_)
ReportPast(list) ==
    IF list = <<>> THEN <<>>
    ELSE <<Line(PastHead, <<isoformat(Head(list).end)>>), Message(Head(list))>>
         \o ReportPast(Tail(list))

RECURSIVE NotIn(_, _)
NotIn(lines, seen) ==
    IF lines = <<>> THEN <<>>
    ELSE (IF \E k \in 1..Len(seen) : seen[k] = Head(lines) THEN <<>> ELSE <<Head(lines)>>)
         \o NotIn(Tail(lines), seen)

\* report with the lines of the previous run left out
report_unreported(iss) ==
    NotIn(ReportCurrent(iss[1]) \o ReportPlanned(iss[2]) \o ReportPast(iss[3]), prevOut)

\* the lines report(issues) prints, in order
report(iss) == ReportCurrent(iss[1]) \o ReportPlanned(iss[2]) \o ReportPast(iss[3])

-----------------------------------------------------------------------------
(* The inputs: the days main() runs on and the pages the site serves *)

Date(y, m, d) == [year |-> y, month |-> m, day |-> d]

NextDay(d) ==
    IF d.day < DaysInMonth(d.year, d.month) THEN Date(d.year, d.month, d.day + 1)
    ELSE IF d.month < 12 THEN Date(d.year, d.month + 1, 1)
    ELSE Date(d.year + 1, 1, 1)

PrevDay(d) ==
    IF d.day > 1 THEN Date(d.year, d.month, d.day - 1)
    ELSE IF d.month > 1 THEN Date(d.year, d.month - 1, DaysInMonth(d.year, d.month - 1))
    ELSE Date(d.year - 1, 12, 31)

\* the day k days after d (before, for k < 0), by stepping through the calendar
RECURSIVE AddDays(_, _)
AddDays(d, k) ==
    IF k = 0 THEN d
    ELSE IF k > 0 THEN AddDays(NextDay(d), k - 1)
    ELSE AddDays(PrevDay(d), k + 1)

AtTime(d, h, mi) ==
    [year |-> d.year, month |-> d.month, day |-> d.day, hour |-> h, minute |-> mi]

\* a day before a leap day, the day after it, and the last day of a year
T0 == Date(2020, 2, 28)
Todays == {T0, Date(2020, 3, 1), Date(2019, 12, 31)}

Offsets == (0 - MaxOffset)..MaxOffset

RichDates == {AddDays(t, k) : t \in Todays, k \in Offsets}

RichStarts == {AtTime(d, 8, 30) : d \in RichDates}

RichEnds == {AtTime(d, 0, 0) : d \in RichDates} \cup {AtTime(d, 18, 0) : d \in RichDates}

Fault == <<"F", "a", "u", "l", "t">>
Ref1 == <<"C", "R", "1", "2">>
Ref2 == <<"C", "R", "3", "4">>
Codes == <<"X", "1">>

\* a row of five cells, as the site writes it
Row(ref, start, end) ==
    <<Fault, ref, date_to_fixed_string(start), date_to_fixed_string(end), Codes>>

\* rows of the pages with several rows
SmallRows ==
    { Row(Ref1, AtTime(T0, 8, 30), AtTime(T0, 8, 30)),
      Row(Ref1, AtTime(T0, 0, 0), AtTime(T0, 0, 0)),
      Row(Ref2, AtTime(AddDays(T0, 1), 8, 30), AtTime(AddDays(T0, -1), 8, 30)),
      Row(Ref2, AtTime(AddDays(T0, 3), 8, 30), AtTime(AddDays(T0, 3), 8, 30)),
      \* four cells: no codes
      SubSeq(Row(Ref1, AtTime(T0, 8, 30), AtTime(T0, 8, 30)), 1, 4),
      \* a start cell with the 31st of February
      <<Fault, Ref2, date_to_fixed_string(AtTime(Date(2020, 2, 31), 8, 30)),
        date_to_fixed_string(AtTime(T0, 8, 30)), Codes>>,
      \* an end cell that is no date
      <<Fault, Ref1, date_to_fixed_string(AtTime(T0, 8, 30)), <<"T", "B", "C">>, Codes>> }

SeqsUpTo(S, n) == UNION {[1..k -> S] : k \in 0..n}

Table(rows, absent) ==
    IF rows = <<>> /\ absent THEN [present |-> FALSE, rows |-> <<>>]
    ELSE [present |-> TRUE, rows |-> rows]

\* the page whose past table holds rs[1..i], planned table rs[i+1..j] and
\* current table the rest; a table with no rows is absent where ab says so
MkPage(rs, i, j, ab) ==
    [pastOutagesGridView |-> Table(SubSeq(rs, 1, i), ab["pastOutagesGridView"]),
     plannedOutagesGridView |-> Table(SubSeq(rs, i + 1, j), ab["plannedOutagesGridView"]),
     currentOutagesGridView |-> Table(SubSeq(rs, j + 1, Len(rs)), ab["currentOutagesGridView"])]

MultiPages ==
    {MkPage(x[1], x[2], x[3], x[4]) :
        x \in {y \in SeqsUpTo(SmallRows, MaxRows) \X (0..MaxRows) \X (0..MaxRows)
                        \X [Grids -> BOOLEAN] :
                    y[2] <= y[3] /\ y[3] <= Len(y[1])}}

SinglePages ==
    {MkPage(<<Row(Ref1, x[1], x[2])>>, x[3][1], x[3][2], [g \in Grids |-> FALSE]) :
        x \in RichStarts \X RichEnds \X {<<0, 0>>, <<0, 1>>, <<1, 1>>}}

Pages == MultiPages \cup SinglePages

NoPage == [g \in Grids |-> [present |-> FALSE, rows |-> <<>>]]

-----------------------------------------------------------------------------
(* main *)

NotCalled == [exc |-> "pending", val |-> NoDatetime]

Init ==
    /\ site \in Pages
    /\ today \in Todays
    /\ pc = "start"
    /\ page = NoPage
    /\ issues = NoIssues
    /\ out = <<>>
    /\ run = 1
    /\ prevOut = <<>>
    /\ dkind = "none"
    /\ dfields = NoDatetime
    /\ dstr = <<>>
    /\ dret = NotCalled

\* page = get_page()
GetPage ==
    /\ pc = "start"
    /\ page' = site
    /\ pc' = "fetched"
    /\ UNCHANGED <<site, today, issues, out, run, prevOut, dateVars>>

\* issues = parse_page(page); an exception leaves main()
ParsePage ==
    /\ pc = "fetched"
    /\ \E r \in {parse_page(page, today)} :
           IF r.exc = "none"
           THEN issues' = r.issues /\ pc' = "parsed"
           ELSE issues' = issues /\ pc' = "failed"
    /\ UNCHANGED <<site, today, page, out, run, prevOut, dateVars>>

\* report(issues)
Report ==
    /\ pc = "parsed"
    /\ out' = report(issues)
    /\ pc' = "done"
    /\ UNCHANGED <<site, today, page, issues, run, prevOut, dateVars>>

\* the script is started again on the same day, the page as it was: nothing
\* of the last run is kept
Main ==
    /\ pc \in {"done", "failed"}
    /\ run < MaxRuns
    /\ run' = run + 1
    /\ prevOut' = out
    /\ pc' = "start"
    /\ page' = NoPage
    /\ issues' = NoIssues
    /\ out' = <<>>
    /\ UNCHANGED <<site, today, dateVars>>

Next == GetPage \/ ParsePage \/ Report \/ Main

Spec == Init /\ [][Next]_vars

-----------------------------------------------------------------------------
(* parse_date on its own *)

Str2(n) == IF n < 10 THEN <<DigitChar[n + 1]>> ELSE Pad2(n)

\* the fields written without leading zeros
unpadded_string(f) ==
    Str2(f.day) \o <<"/">> \o Str2(f.month) \o <<"/">> \o Pad4(f.year)
        \o <<" ">> \o Str2(f.hour) \o <<":">> \o Str2(f.minute)

\* the fields written with other separators
dashed_string(f) ==
    Pad2(f.day) \o <<"-">> \o Pad2(f.month) \o <<"-">> \o Pad4(f.year)
        \o <<"T">> \o Pad2(f.hour) \o <<":">> \o Pad2(f.minute)

Written(kind, f) ==
    CASE kind = "fixed" -> date_to_fixed_string(f)
      [] kind = "unpadded" -> unpadded_string(f)
      [] kind = "dashed" -> dashed_string(f)

FieldSpace ==
    [year : {0, 1, 999, 1900, 2000, 2019, 2020, 9999},
     month : 0..13,
     day : {0, 1, 9, 10, 28, 29, 30, 31, 32},
     hour : {0, 9, 10, 23, 24},
     minute : {0, 9, 59, 60}]

InitDate ==
    /\ dkind \in {"fixed", "unpadded", "dashed"}
    /\ dfields \in FieldSpace
    /\ dstr = Written(dkind, dfields)
    /\ dret = NotCalled
    /\ site = NoPage
    /\ today = T0
    /\ pc = "start"
    /\ page = NoPage
    /\ issues = NoIssues
    /\ out = <<>>
    /\ run = 1
    /\ prevOut = <<>>

\* dret = parse_date(dstr)
CallParseDate ==
    /\ dret = NotCalled
    /\ dret' = parse_date(dstr)
    /\ UNCHANGED <<dkind, dfields, dstr, mainVars>>

NextDate == CallParseDate

SpecDate == InitDate /\ [][NextDate]_vars

-----------------------------------------------------------------------------
(* What the properties are stated with: the calendar as a table of months, *)
(* and the rows of the fetched page read back to the date-times the site   *)
(* wrote them from.                                                        *)

\* the months the pages and the days of the runs lie in, and the number of
\* days from 30 November 2019 to the last day before each (2020 is a leap year)
DayIndex(d) ==
    d.day + CASE d.year = 2019 /\ d.month = 12 -> 0
              [] d.year = 2020 /\ d.month = 1 -> 31
              [] d.year = 2020 /\ d.month = 2 -> 31 + 31
              [] d.year = 2020 /\ d.month = 3 -> 31 + 31 + 29

\* a - b in days, counted on the calendar
DaysApart(a, b) == DayIndex(a) - DayIndex(b)

\* the last day of month m of year y, from the table of month lengths
LastDay(y, m) ==
    IF m = 2 /\ (y % 400 = 0 \/ (y % 4 = 0 /\ y % 100 # 0)) THEN 29
    ELSE <<31, 28, 31, 30, 31, 30, 31, 31, 30, 31, 30, 31>>[m]

\* a text of 16 characters read by position: DD/MM/YYYY HH:MM
Num2(txt, p) == 10 * DigitVal(txt[p]) + DigitVal(txt[p + 1])

IsDateText(txt) ==
    /\ Len(txt) = 16
    /\ \A p \in {1, 2, 4, 5, 7, 8, 9, 10, 12, 13, 15, 16} : txt[p] \in Digit
    /\ txt[3] = "/" /\ txt[6] = "/" /\ txt[11] = " " /\ txt[14] = ":"
    /\ Num2(txt, 4) \in 1..12
    /\ Num2(txt, 1) \in 1..LastDay(100 * Num2(txt, 7) + Num2(txt, 9), Num2(txt, 4))
    /\ Num2(txt, 12) \in 0..23
    /\ Num2(txt, 15) \in 0..59

WrittenFrom(txt) ==
    [year |-> 100 * Num2(txt, 7) + Num2(txt, 9), month |-> Num2(txt, 4),
     day |-> Num2(txt, 1), hour |-> Num2(txt, 12), minute |-> Num2(txt, 15)]

WellFormed(row) == Len(row) >= 5 /\ IsDateText(row[3]) /\ IsDateText(row[4])

\* the record a well-formed row stands for
RecordOf(row) ==
    [issue_type |-> row[1], reference |-> row[2], start |-> WrittenFrom(row[3]),
     end |-> WrittenFrom(row[4]), codes |-> row[5]]

RowsOf(g) == page[g].rows

Bucket(g) ==
    CASE g = "currentOutagesGridView" -> 1
      [] g = "plannedOutagesGridView" -> 2
      [] g = "pastOutagesGridView" -> 3

Returned == pc \in {"parsed", "done"}

Finished == pc \in {"parsed", "done", "failed"}

HasBadRow == \E g \in Grids : \E i \in 1..Len(RowsOf(g)) : ~WellFormed(RowsOf(g)[i])

InList(rec, list) == \E k \in 1..Len(list) : list[k] = rec

\* start.date() - today and today - end.date() of a well-formed row
StartAhead(row) == DaysApart(DateOf(WrittenFrom(row[3])), today)
EndBehind(row) == DaysApart(today, DateOf(WrittenFrom(row[4])))

Passes(row) == StartAhead(row) < 2 /\ EndBehind(row) < 2

PassingRows(g) == {i \in 1..Len(RowsOf(g)) : Passes(RowsOf(g)[i])}

RECURSIVE PassingRecords(_)
PassingRecords(rows) ==
    IF rows = <<>> THEN <<>>
    ELSE (IF Passes(Head(rows)) THEN <<RecordOf(Head(rows))>> ELSE <<>>)
         \o PassingRecords(Tail(rows))

-----------------------------------------------------------------------------
(* Properties *)

\* C1: once parse_page has returned, a row of any table is in the result
\* exactly when start.date() - today < 2 days and today - end.date() < 2
\* days, both strict: a start 2 or more days ahead, or an end 2 or more days
\* back, drops the row, and a row that starts and ends today is kept.
C1_RetainedIffBothStrictlyUnderTwoDays ==
    Returned =>
        \A g \in Grids : \A i \in 1..Len(RowsOf(g)) :
            LET row == RowsOf(g)[i]
            IN  /\ InList(RecordOf(row), issues[Bucket(g)]) <=> Passes(row)
                /\ StartAhead(row) = 3 => ~InList(RecordOf(row), issues[Bucket(g)])
                /\ EndBehind(row) = 3 => ~InList(RecordOf(row), issues[Bucket(g)])
                /\ (StartAhead(row) = 0 /\ EndBehind(row) = 0)
                       => InList(RecordOf(row), issues[Bucket(g)])

\* parse_page returned with three rows in view over the runs: here one that
\* starts 3 days ahead and was dropped
C1_Witness ==
    /\ Returned
    /\ \E g \in Grids : \E i \in 1..Len(RowsOf(g)) :
           /\ StartAhead(RowsOf(g)[i]) = 3
           /\ EndBehind(RowsOf(g)[i]) <= 0
           /\ issues[Bucket(g)] = <<>>

\* C2 as stated: every row with start.date() <= today + 2 days and
\* end.date() >= today - 2 days is retained, the two boundary rows included.
C2_Original_RetainedUpToTwoDays ==
    Returned =>
        \A g \in Grids : \A i \in 1..Len(RowsOf(g)) :
            LET row == RowsOf(g)[i]
            IN  (StartAhead(row) <= 2 /\ EndBehind(row) <= 2)
                    => InList(RecordOf(row), issues[Bucket(g)])

\* C2 amended: every row with start.date() <= today + 1 day and end.date()
\* >= today - 1 day is retained; the rows with start.date() = today + 2 days
\* or end.date() = today - 2 days are dropped.
C2_RetainedUpToOneDay ==
    Returned =>
        \A g \in Grids : \A i \in 1..Len(RowsOf(g)) :
            LET row == RowsOf(g)[i]
            IN  /\ (StartAhead(row) <= 1 /\ EndBehind(row) <= 1)
                       => InList(RecordOf(row), issues[Bucket(g)])
                /\ (StartAhead(row) = 2 \/ EndBehind(row) = 2)
                       => ~InList(RecordOf(row), issues[Bucket(g)])

\* a row that started 3 days ago and ends tomorrow was kept
C2_Witness ==
    /\ Returned
    /\ \E g \in Grids : \E i \in 1..Len(RowsOf(g)) :
           /\ StartAhead(RowsOf(g)[i]) = 0 - 3
           /\ EndBehind(RowsOf(g)[i]) = 0 - 1
           /\ InList(RecordOf(RowsOf(g)[i]), issues[Bucket(g)])

\* C3: in the result [current, planned, past] every record of a list is a
\* row of that list's own table, every passing row of a table is in that
\* table's list, and the three lists hold as many records as there are
\* passing rows: no record is in a list of another table, whatever its dates.
C3_BucketIsSourceTable ==
    Returned =>
        /\ \A g \in Grids :
              /\ \A k \in 1..Len(issues[Bucket(g)]) :
                     \E i \in 1..Len(RowsOf(g)) : issues[Bucket(g)][k] = RecordOf(RowsOf(g)[i])
              /\ \A i \in PassingRows(g) : InList(RecordOf(RowsOf(g)[i]), issues[Bucket(g)])
              /\ Len(issues[Bucket(g)]) = Cardinality(PassingRows(g))
        /\ Len(issues) = 3

\* the past table has a row that starts tomorrow and ended yesterday, and the
\* record is in the past list only
C3_Witness ==
    /\ Returned
    /\ \E i \in 1..Len(RowsOf("pastOutagesGridView")) :
           LET row == RowsOf("pastOutagesGridView")[i]
           IN  /\ StartAhead(row) = 1
               /\ EndBehind(row) = 1
               /\ InList(RecordOf(row), issues[3])
               /\ ~InList(RecordOf(row), issues[1])
               /\ ~InList(RecordOf(row), issues[2])

\* C4: when a row of any table has fewer than 5 cells or a start or end cell
\* that is no date, parse_page raises: main() has no result lists and prints
\* nothing.
C4_BadRowFailsWholeParse ==
    (Finished /\ HasBadRow) => (pc = "failed" /\ issues = NoIssues /\ out = <<>>)

\* a bad row stands after a passing row of a table processed earlier, and
\* the run failed without a result
C4_Witness ==
    /\ pc = "failed"
    /\ issues = NoIssues
    /\ Len(RowsOf("pastOutagesGridView")) = 1
    /\ WellFormed(RowsOf("pastOutagesGridView")[1])
    /\ Passes(RowsOf("pastOutagesGridView")[1])
    /\ Len(RowsOf("currentOutagesGridView")) = 1
    /\ ~WellFormed(RowsOf("currentOutagesGridView")[1])

\* C5: each result list is exactly the passing rows of its table, in the
\* order of the table.
C5_ListIsPassingRowsInTableOrder ==
    Returned =>
        \A g \in Grids : issues[Bucket(g)] = PassingRecords(RowsOf(g))

\* a table with two different passing rows
C5_Witness ==
    /\ Returned
    /\ \E g \in Grids :
           /\ Len(RowsOf(g)) = 2
           /\ RowsOf(g)[1] # RowsOf(g)[2]
           /\ Len(issues[Bucket(g)]) = 2

\* the page with presence of table g switched (absent <-> present, no rows)
Switched(g) == [page EXCEPT ![g].present = ~page[g].present]

\* C6: a table that is absent or has no rows gives an empty list, gives no
\* error (a failed run has a bad row somewhere), and the lists of the other
\* tables are what they are when the table is present and empty instead of
\* absent, or absent instead of empty.
C6_MissingOrEmptyTableIsEmptyList ==
    /\ Returned =>
           \A g \in Grids :
               RowsOf(g) = <<>> =>
                   /\ issues[Bucket(g)] = <<>>
                   /\ pc = "parsed" => parse_page(Switched(g), today).issues = issues
    /\ pc = "failed" => HasBadRow
    /\ (Returned /\ \A g \in Grids : ~page[g].present) => issues = << <<>>, <<>>, <<>> >>

\* a table is absent, another holds a row that was retained
C6_Witness ==
    /\ Returned
    /\ \E g \in Grids : \E h \in Grids :
           /\ ~page[g].present
           /\ issues[Bucket(g)] = <<>>
           /\ Len(issues[Bucket(h)]) >= 1

SameDates(r1, r2) ==
    /\ DateOf(WrittenFrom(r1[3])) = DateOf(WrittenFrom(r2[3]))
    /\ DateOf(WrittenFrom(r1[4])) = DateOf(WrittenFrom(r2[4]))

\* C7: two rows with the same start date and the same end date are both
\* retained or both dropped, whatever their times of day, and a retained
\* record has the start and end date-times of its row, time of day included.
C7_FilterOnDatesRecordKeepsTimes ==
    Returned =>
        /\ \A g \in Grids : \A h \in Grids :
               \A i \in 1..Len(RowsOf(g)) : \A j \in 1..Len(RowsOf(h)) :
                   SameDates(RowsOf(g)[i], RowsOf(h)[j]) =>
                       (InList(RecordOf(RowsOf(g)[i]), issues[Bucket(g)])
                            <=> InList(RecordOf(RowsOf(h)[j]), issues[Bucket(h)]))
        /\ \A g \in Grids : \A k \in 1..Len(issues[Bucket(g)]) :
               \E i \in 1..Len(RowsOf(g)) :
                   /\ date_to_fixed_string(issues[Bucket(g)][k].start) = RowsOf(g)[i][3]
                   /\ date_to_fixed_string(issues[Bucket(g)][k].end) = RowsOf(g)[i][4]

\* two rows with the same dates and different times, both ended exactly two
\* days before today, one at midnight: both dropped
C7_Witness ==
    /\ Returned
    /\ \E g \in Grids : \E h \in Grids :
           \E i \in 1..Len(RowsOf(g)) : \E j \in 1..Len(RowsOf(h)) :
               /\ SameDates(RowsOf(g)[i], RowsOf(h)[j])
               /\ RowsOf(g)[i][4] # RowsOf(h)[j][4]
               /\ EndBehind(RowsOf(g)[i]) = 2
               /\ WrittenFrom(RowsOf(g)[i][4]).hour = 0
               /\ issues = << <<>>, <<>>, <<>> >>

\* C8: report prints, in this order, one line per current record, then a
\* notification line and a detail line per planned record, then the same per
\* past record: c + 2p + 2q lines, and no detail line for a current record.
C8_ReportLines ==
    pc = "done" =>
        LET c == Len(issues[1])
            p == Len(issues[2])
            q == Len(issues[3])
        IN  /\ Len(out) = c + 2 * p + 2 * q
            /\ \A k \in 1..c :
                   out[k] = Line(CurrentHead, <<isoformat(issues[1][k].start)>>)
            /\ \A k \in 1..p :
                   /\ out[c + 2 * k - 1] = Line(PlannedHead, <<isoformat(issues[2][k].start)>>)
                   /\ out[c + 2 * k].head = DetailHead
                   /\ out[c + 2 * k].args[1] = issues[2][k].reference
            /\ \A k \in 1..q :
                   /\ out[c + 2 * p + 2 * k - 1] = Line(PastHead, <<isoformat(issues[3][k].end)>>)
                   /\ out[c + 2 * p + 2 * k].head = DetailHead
                   /\ out[c + 2 * p + 2 * k].args[1] = issues[3][k].reference
            /\ Cardinality({k \in 1..Len(out) : out[k].head = DetailHead}) = p + q

\* a run that reported a current record and a planned or past one
C8_Witness ==
    /\ pc = "done"
    /\ Len(issues[1]) >= 1
    /\ Len(issues[2]) + Len(issues[3]) >= 1
    /\ Len(out) = Len(issues[1]) + 2 * Len(issues[2]) + 2 * Len(issues[3])

InRange(f) ==
    /\ f.year \in 1..9999
    /\ f.month \in 1..12
    /\ f.hour \in 0..23
    /\ f.minute \in 0..59
    /\ f.day >= 1
    /\ f.day <= LastDay(f.year, f.month)

\* C9: parse_date of a date-time written as DD/MM/YYYY HH:MM is that
\* date-time, and a string whose day, month, hour or minute is out of range
\* raises an error.
C9_ParseDateRoundTrip ==
    dret # NotCalled =>
        /\ (dkind = "fixed" /\ InRange(dfields)) => dret = [exc |-> "none", val |-> dfields]
        /\ (dkind \in {"fixed", "unpadded"} /\ ~InRange(dfields)) => dret.exc = "ValueError"

\* the 29th of February of a leap year, at 23:59, came back from its string
C9_Witness ==
    /\ dkind = "fixed"
    /\ dfields = [year |-> 2020, month |-> 2, day |-> 29, hour |-> 23, minute |-> 59]
    /\ dret = [exc |-> "none", val |-> dfields]

RowsWithRef(g, ref) == {i \in PassingRows(g) : RowsOf(g)[i][2] = ref}

====
